---- MODULE Spec2Model ----
(***************************************************************************)
(* A model of the onePercent strategy: the backtest engine of              *)
(* src/backtest.py (OnePercentBacktest) and the live controller of         *)
(* src/trader.py (OnePercentTrader).  The two programs share no state;     *)
(* each has its own specification (Spec for the backtest, TraderSpec for   *)
(* the controller) and leaves the other program's variables alone.         *)
(*                                                                         *)
(* Money in the backtest is kept in mills (1/1000 of a price unit): bar    *)
(* prices are whole units, so entry * 1.01 and entry * 0.995 are exact.    *)
(***************************************************************************)
EXTENDS Integers, Sequences, FiniteSets, TLC

\* ------------------------------------------------------------------------
\* Bounds of the model
\* ------------------------------------------------------------------------

\* Bars that follow the 20-bar lookback prefix of a generated bar sequence.
MaxTail == 4

\* Orders the broker account accepts in all (further submissions are rejected).
MaxOrders == 3

\* the longest ledger handed to get_stats directly
MaxTrades == 3

\* ------------------------------------------------------------------------
\* Program constants
\* ------------------------------------------------------------------------

\* OnePercentBacktest.__init__(initial_capital=10000), in price units.
initial_capital == 10000

\* "if i >= 20" and df.iloc[i-20:i]: the lookback window.
LOOKBACK == 20

\* OnePercentTrader.__init__(investment_amount=10000), in currency units.
investment_amount == 10000

\* ------------------------------------------------------------------------
\* Values
\* ------------------------------------------------------------------------

\* Python's None, and a present value, for the optional fields.
None == <<>>
Some(x) == <<x>>

\* A price in units, as mills.
ToMills(p) == p * 1000

\* (mutant) the quotient rounded up
IntCeil(a, b) == IF a % b = 0 THEN a \div b ELSE (a \div b) + 1

\* int(a / b) for b > 0: truncation towards zero.
IntTrunc(a, b) == IF a >= 0 THEN a \div b ELSE -((-a) \div b)

\* ------------------------------------------------------------------------
\* Backtest: the bar sequences it is run on
\* ------------------------------------------------------------------------

Shape(v, c, h, l) == [volume |-> v, close |-> c, high |-> h, low |-> l]

\* no spike, no movement
Quiet == Shape(1000, 100, 100, 100)
\* volume exactly 1.2 x a flat 1000 mean: not a spike
Edge == Shape(1200, 100, 100, 100)
\* a spike in volume alone
Surge == Shape(1300, 100, 100, 100)
\* a spike whose own range reaches above +1% and below -0.5% of its close
Spike == Shape(1300, 100, 102, 99)
\* a quiet bar that touches 101
Up == Shape(1000, 101, 101, 100)
\* a spike that falls to 99
SpikeDown == Shape(1300, 99, 100, 99)

TailShapes == {Quiet, Edge, Surge, Spike, Up, SpikeDown}

\* The 20 bars before index 20: quiet, with a spike at position k (none for k = 0).
WarmUp(k) == [n \in 1..LOOKBACK |-> IF n = k THEN Spike ELSE Quiet]

WarmUps == {WarmUp(0), WarmUp(LOOKBACK)}

Tails == UNION {[1..n -> TailShapes] : n \in 1..MaxTail}

\* The DataFrame built from the fetched bars: row k-1 carries its timestamp.
DataFrame(shapes) ==
    [k \in 1..Len(shapes) |->
        [timestamp |-> k - 1, volume |-> shapes[k].volume, close |-> shapes[k].close,
         high |-> shapes[k].high, low |-> shapes[k].low]]

BarSequences ==
    {DataFrame(SubSeq(w, 1, n)) : w \in WarmUps, n \in {0, 1, LOOKBACK}}
        \cup {DataFrame(w \o t) : w \in WarmUps, t \in Tails}

\* ------------------------------------------------------------------------
\* State
\* ------------------------------------------------------------------------

VARIABLES
    \* OnePercentBacktest
    pc,           \* "new" (constructed), "loop" (inside run_backtest), "done"
    df,           \* the bars of the run
    i,            \* the loop index of run_backtest
    capital,      \* self.capital, in mills
    position,     \* self.position: None or Some(position record)
    entry_price,  \* self.entry_price: None or Some(mills)
    trades,       \* self.trades
    first_run,    \* the ledger and capital an earlier run on the same bars returned
    stats,        \* the value get_stats returned, None before the call
    \* OnePercentTrader
    tpc,                  \* where run stands: the broker call it makes next
    calls,                \* the broker calls of the current loop pass
    trader_position,      \* self.position: None or Some(adopted position / filled order)
    trader_entry_price,   \* self.entry_price: None or Some(cents)
    order_states,         \* self.order_states: order id -> last seen status
    stale_alerts,         \* the orders monitor_orders warned about in this pass
    found,                \* check_and_handle_existing_position: position
    sell_from,            \* the caller of the running place_sell_orders
    exit_qty,             \* place_sell_orders: available_qty
    exit_avg,             \* place_sell_orders: position.avg_entry_price
    buy_qty,              \* place_buy_order: qty
    buy_id,               \* place_buy_order: order.id
    \* cancel_existing_orders
    cancel_pc,            \* "idle", "first_pass", "verify", "final", "returned", "failed"
    retries,              \* retries
    remaining_orders,     \* remaining_orders, as order ids
    cancel_result,        \* the value returned: None before the return
    \* the broker account
    broker_position,      \* the holding in self.symbol (qty 0: none)
    broker_orders,        \* the orders in self.symbol, by id
    cancel_requests       \* the orders whose cancellation was asked for

btvars == <<pc, df, i, capital, position, entry_price, trades, first_run, stats>>

cancelvars == <<cancel_pc, retries, remaining_orders, cancel_result, cancel_requests>>

trvars == <<tpc, calls, trader_position, trader_entry_price, order_states,
            stale_alerts, found, sell_from, exit_qty, exit_avg, buy_qty, buy_id,
            broker_position, broker_orders, cancelvars>>

vars == <<btvars, trvars>>

\* ------------------------------------------------------------------------
\* Backtest: run_backtest
\* ------------------------------------------------------------------------

\* sum of volume over rows a .. b-1 (0-based, as df.iloc[a:b])
RECURSIVE SumVolume(_, _, _)
SumVolume(d, a, b) == IF a >= b THEN 0 ELSE d[a + 1].volume + SumVolume(d, a + 1, b)

\* (mutant) the comparison made non-strict
VolumeSpikeNonStrict(d, n) ==
    d[n + 1].volume * LOOKBACK * 10 >= SumVolume(d, n - LOOKBACK, n) * 12

\* current_bar['volume'] > df.iloc[i-20:i]['volume'].mean() * 1.2, in integers:
\* v > (s / 20) * 1.2  <=>  v * 20 * 10 > s * 12
VolumeSpike(d, n) == d[n + 1].volume * LOOKBACK * 10 > SumVolume(d, n - LOOKBACK, n) * 12

\* "if i >= 20" and the volume test
EntrySignal(d, n) == n >= LOOKBACK /\ VolumeSpike(d, n)

\* entry_price * (1 + target_profit_pct), in mills
TargetPrice(e) == (e * 101) \div 100

\* entry_price * (1 - stop_loss_pct), in mills
StopPrice(e) == (e * 995) \div 1000

\* the position dictionary built on entry
OpenPosition(cap, bar) ==
    LET e == ToMills(bar.close) IN
    [shares |-> IntTrunc(cap, e), entry_price |-> e, entry_time |-> bar.timestamp,
     target_price |-> TargetPrice(e), stop_price |-> StopPrice(e)]

\* (mutant) the entry rule evaluated on every bar
IsFlatAlways(pos) == TRUE

\* "if self.position is None"
IsFlat(pos) == pos = None

HitsTarget(bar, p) == ToMills(bar.high) >= p.target_price
HitsStop(bar, p) == ToMills(bar.low) <= p.stop_price

\* the exit condition of the else branch
ExitTriggered(bar, p) == HitsTarget(bar, p) \/ HitsStop(bar, p)

\* (mutant) the stop tested first
ExitTypeStopFirst(bar, p) == IF HitsStop(bar, p) THEN "stop" ELSE "target"

\* target is tested first
ExitType(bar, p) == IF HitsTarget(bar, p) THEN "target" ELSE "stop"

\* (mutant) the exit priced at the bar's extreme
ExitPriceAtBar(bar, p) ==
    IF ExitType(bar, p) = "target" THEN ToMills(bar.high) ELSE ToMills(bar.low)

\* exit_price: the position's own target or stop
ExitPrice(bar, p) == IF ExitType(bar, p) = "target" THEN p.target_price ELSE p.stop_price

\* the trade appended on exit
ClosedTrade(bar, p) ==
    LET x == ExitPrice(bar, p) IN
    [entry_time |-> p.entry_time, exit_time |-> bar.timestamp,
     entry_price |-> p.entry_price, exit_price |-> x, shares |-> p.shares,
     pl |-> (x - p.entry_price) * p.shares, exit_type |-> ExitType(bar, p)]

\* (mutant) the sale proceeds credited instead of the profit or loss
SettleProceeds(cap, t) == cap + t.exit_price * t.shares

\* "self.capital += pl"
Settle(cap, t) == cap + t.pl

\* (mutant) the capital of the previous run carried into the next
CapitalCarriedOver(cap) == cap

\* "self.capital = self.initial_capital"
ResetCapital(cap) == ToMills(initial_capital)

\* run_backtest up to the loop: fetch the bars, reset the metrics
RunBacktest ==
    /\ pc = "new"
    /\ \E bars \in BarSequences : df' = bars
    /\ capital' = ResetCapital(capital)
    /\ trades' = <<>>
    /\ position' = None
    /\ i' = 0
    /\ pc' = "loop"
    /\ UNCHANGED <<entry_price, first_run, stats>>
    /\ UNCHANGED trvars

\* run_backtest called again on the same instance for the same period: the
\* fetch returns the same bars; what the earlier run returned is kept aside
RunAgain ==
    /\ pc = "done"
    /\ first_run = None
    /\ first_run' = Some([trades |-> trades, capital |-> capital])
    /\ df' = df
    /\ capital' = ResetCapital(capital)
    /\ trades' = <<>>
    /\ position' = None
    /\ i' = 0
    /\ pc' = "loop"
    /\ UNCHANGED <<entry_price, stats>>
    /\ UNCHANGED trvars

\* one iteration of "for i in range(len(df))"
Iterate ==
    /\ pc = "loop"
    /\ i < Len(df)
    /\ LET bar == df[i + 1] IN
        IF IsFlat(position)
        THEN IF EntrySignal(df, i)
             THEN /\ entry_price' = Some(ToMills(bar.close))
                  /\ position' = Some(OpenPosition(capital, bar))
                  /\ UNCHANGED <<capital, trades>>
             ELSE UNCHANGED <<entry_price, position, capital, trades>>
        ELSE IF ExitTriggered(bar, position[1])
             THEN LET t == ClosedTrade(bar, position[1]) IN
                  /\ capital' = Settle(capital, t)
                  /\ trades' = Append(trades, t)
                  /\ position' = None
                  /\ UNCHANGED entry_price
             ELSE UNCHANGED <<entry_price, position, capital, trades>>
    /\ i' = i + 1
    /\ UNCHANGED <<pc, df, first_run, stats>>
    /\ UNCHANGED trvars

\* ------------------------------------------------------------------------
\* Backtest: get_stats
\* ------------------------------------------------------------------------

\* the sum of pl over the first n trades of a ledger
RECURSIVE SumPl(_, _)
SumPl(ts, n) == IF n = 0 THEN 0 ELSE SumPl(ts, n - 1) + ts[n].pl

\* a / b as an exact fraction; a zero divisor raises ZeroDivisionError
Div(a, b) == [ok |-> b # 0, num |-> a, den |-> b]

\* the literal 0 where a quotient is expected
Zero == [ok |-> TRUE, num |-> 0, den |-> 1]

\* (mutant) a trade that broke even counted as a win
IsProfitableOrFlat(pl) == pl >= 0

\* "t['pl'] > 0"
IsProfitable(pl) == pl > 0

\* "t['pl'] <= 0"
IsLoss(pl) == pl <= 0

\* [t for t in self.trades if t['pl'] > 0], as indices
Profitable(ts) == {k \in 1..Len(ts) : IsProfitable(ts[k].pl)}

\* the trades selected by "if t['pl'] <= 0", as indices
Losses(ts) == {k \in 1..Len(ts) : IsLoss(ts[k].pl)}

\* sum(t['pl'] for t in ... if k selected), over the first n trades
RECURSIVE SumPlOver(_, _, _)
SumPlOver(ts, sel, n) ==
    IF n = 0 THEN 0
    ELSE SumPlOver(ts, sel, n - 1) + (IF n \in sel THEN ts[n].pl ELSE 0)

\* max(t['pl'] ...) and min(t['pl'] ...) over the selected trades
MaxPl(ts, sel) == CHOOSE x \in {ts[k].pl : k \in sel} : \A k \in sel : x >= ts[k].pl
MinPl(ts, sel) == CHOOSE x \in {ts[k].pl : k \in sel} : \A k \in sel : x <= ts[k].pl

\* (mutant) the averages computed without looking at the count
HasAnyAlways(n) == TRUE

\* "if profitable_trades > 0", "if losing_trades > 0", "if total_trades > 0"
HasAny(n) == n > 0

\* the value get_stats returns for ledger ts and capital cap
StatsOf(ts, cap) ==
    IF ts = <<>> THEN [result |-> "No trades executed"]
    ELSE
    LET total_trades == Len(ts)
        profitable_trades == Cardinality(Profitable(ts))
        losing_trades == total_trades - profitable_trades
        win_rate == IF HasAny(total_trades) THEN Div(profitable_trades, total_trades)
                    ELSE Zero
        avg_profit == IF HasAny(profitable_trades)
                      THEN Div(SumPlOver(ts, Profitable(ts), Len(ts)), profitable_trades)
                      ELSE Zero
        avg_loss == IF HasAny(losing_trades)
                    THEN Div(SumPlOver(ts, Losses(ts), Len(ts)), losing_trades)
                    ELSE Zero
        total_return == Div((cap - ToMills(initial_capital)) * 100, ToMills(initial_capital))
    IN  IF ~win_rate.ok \/ ~avg_profit.ok \/ ~avg_loss.ok \/ ~total_return.ok
        THEN [result |-> "ZeroDivisionError"]
        ELSE [result |-> "stats",
              final_capital |-> cap,
              total_return |-> total_return,
              total_trades |-> total_trades,
              profitable_trades |-> profitable_trades,
              losing_trades |-> losing_trades,
              win_rate |-> win_rate,
              total_pl |-> SumPl(ts, Len(ts)),
              avg_profit |-> avg_profit,
              avg_loss |-> avg_loss,
              max_profit |-> IF HasAny(profitable_trades)
                             THEN MaxPl(ts, Profitable(ts)) ELSE 0,
              max_loss |-> IF HasAny(losing_trades) THEN MinPl(ts, Losses(ts)) ELSE 0,
              target_exits |-> Cardinality({k \in 1..Len(ts) : ts[k].exit_type = "target"}),
              stop_exits |-> Cardinality({k \in 1..Len(ts) : ts[k].exit_type = "stop"})]

\* get_stats, called after run_backtest has returned
GetStats ==
    /\ pc = "done"
    /\ stats = None
    /\ stats' = Some(StatsOf(trades, capital))
    /\ UNCHANGED <<pc, df, i, capital, position, entry_price, trades, first_run>>
    /\ UNCHANGED trvars

\* ------------------------------------------------------------------------
\* Backtest: run_backtest, the end
\* ------------------------------------------------------------------------

\* (mutant) a position left open by the last bar booked as a trade closed
\* at its entry price
LedgerWithOpenPositionClosed(ts, pos) ==
    IF pos = None THEN ts
    ELSE Append(ts, [entry_time |-> pos[1].entry_time, exit_time |-> pos[1].entry_time,
                     entry_price |-> pos[1].entry_price,
                     exit_price |-> pos[1].entry_price, shares |-> pos[1].shares,
                     pl |-> 0, exit_type |-> "end"])

\* self.trades when the for loop has ended: nothing follows the loop, an
\* open position stays in self.position
LedgerAtReturn(ts, pos) == ts

\* the loop is exhausted: run_backtest returns
Finish ==
    /\ pc = "loop"
    /\ i = Len(df)
    /\ pc' = "done"
    /\ trades' = LedgerAtReturn(trades, position)
    /\ UNCHANGED <<df, i, capital, position, entry_price, first_run, stats>>
    /\ UNCHANGED trvars

\* ------------------------------------------------------------------------
\* Live controller: values
\* ------------------------------------------------------------------------

\* round(x, 2) of the price num/den cents: the nearest cent, ties to even
RoundCents(num, den) ==
    LET q == num \div den
        r == num % den
    IN  IF 2 * r > den \/ (2 * r = den /\ q % 2 = 1) THEN q + 1 ELSE q

\* round(float(position.avg_entry_price) * 1.01, 2), in cents
LiveTargetPrice(avg) == RoundCents(avg * 101, 100)

\* round(float(position.avg_entry_price) * 0.99, 2), in cents
LiveStopPrice(avg) == RoundCents(avg * 99, 100)

\* self.investment_amount // current_price (prices in cents)
BuyQty(price) == (investment_amount * 100) \div price

\* one broker call of the current loop pass: the call, its outcome, a datum
Called(c, r, a) == [call |-> c, result |-> r, arg |-> a]

\* ------------------------------------------------------------------------
\* Live controller: the broker account (trading_client, data_client)
\* ------------------------------------------------------------------------

NoHolding == [qty |-> 0, avg_entry_price |-> 0]
Holding(q, avg) == [qty |-> q, avg_entry_price |-> avg]

Order(side, type, qty, price, link) ==
    [side |-> side, type |-> type, qty |-> qty, price |-> price, link |-> link,
     status |-> "new", filled_avg_price |-> 0, age |-> 0]

\* the ids of the open orders (all modelled orders are in self.symbol)
OpenOrders(orders) == {k \in 1..Len(orders) : orders[k].status = "new"}

\* an open sell order that holds shares: the two legs of a linked pair hold
\* the same shares, counted once
HoldsShares(orders, k) ==
    /\ k \in OpenOrders(orders)
    /\ orders[k].side = "sell"
    /\ \/ orders[k].link = 0
       \/ orders[k].link > k
       \/ orders[k].link \notin OpenOrders(orders)

RECURSIVE HeldQty(_, _)
HeldQty(orders, n) ==
    IF n = 0 THEN 0
    ELSE HeldQty(orders, n - 1) + (IF HoldsShares(orders, n) THEN orders[n].qty ELSE 0)

\* position.qty_available: the shares no open sell order holds
QtyAvailable(holding, orders) == holding.qty - HeldQty(orders, Len(orders))

\* the linked take-profit / stop-loss pair a bracket request creates
BracketLegs(orders, qty, limit, stop) ==
    LET n == Len(orders) IN
    <<Order("sell", "limit", qty, limit, n + 2), Order("sell", "stop", qty, stop, n + 1)>>

\* the latest close of get_current_price / the fill price, in cents
Prices == {10000}

\* the accounts the controller may find when it starts: flat, or holding
\* shares bought at `price` with some of the exit orders in place
AccountsAt(price) ==
    LET q == BuyQty(price)
        held == Holding(q, price)
        tp == LiveTargetPrice(price)
        sl == LiveStopPrice(price)
    IN  { [holding |-> NoHolding, orders |-> <<>>],
          [holding |-> held, orders |-> <<>>],
          [holding |-> held, orders |-> <<Order("sell", "limit", q, tp, 0)>>],
          [holding |-> held, orders |-> <<Order("sell", "stop", q, sl, 0)>>],
          [holding |-> held, orders |-> <<Order("sell", "stop", q \div 2, sl, 0)>>],
          [holding |-> held, orders |-> BracketLegs(<<>>, q, tp, sl)] }

BrokerStates == UNION {AccountsAt(price) : price \in Prices}

\* bars[self.symbol] of check_market_conditions, as hourly volumes
GateBars == {<<>>, <<10, 10>>, <<20, 5>>}

\* ------------------------------------------------------------------------
\* Live controller: OnePercentTrader
\* ------------------------------------------------------------------------

RECURSIVE SumSeq(_, _)
SumSeq(s, n) == IF n = 0 THEN 0 ELSE s[n] + SumSeq(s, n - 1)

\* recent_volume > avg_volume * 0.8, in integers
MarketFavourable(vols) ==
    vols[Len(vols)] * Len(vols) * 10 > SumSeq(vols, Len(vols)) * 8

\* any(o.side == 'sell' and o.type == 'limit' ...)
HasTpOrder(orders) ==
    \E k \in OpenOrders(orders) : orders[k].side = "sell" /\ orders[k].type = "limit"

\* any(o.side == 'sell' and o.type == 'stop' ...)
HasSlOrder(orders) ==
    \E k \in OpenOrders(orders) : orders[k].side = "sell" /\ orders[k].type = "stop"

ExitOrdersSeen(orders) ==
    IF HasTpOrder(orders)
    THEN IF HasSlOrder(orders) THEN "both" ELSE "tp_only"
    ELSE IF HasSlOrder(orders) THEN "sl_only" ELSE "neither"

\* (mutant) exit orders placed on every reconciliation
NeedsExitOrdersAlways(tp, sl) == TRUE

\* (mutant) exit orders never placed by reconciliation
NeedsExitOrdersNever(tp, sl) == FALSE

\* "if not has_tp_order or not has_sl_order"
NeedsExitOrders(tp, sl) == ~tp \/ ~sl

\* the seconds of a day: timedelta keeps whole days apart from .seconds
SECONDS_PER_DAY == 86400

\* the age above which monitor_orders warns, in seconds
STALE_AFTER == 3600

\* "(datetime.now() - order.created_at).seconds > 3600" for an order created
\* `age` seconds ago: .seconds is the part of the difference below one day
IsStale(age) == (age % SECONDS_PER_DAY) > STALE_AFTER

\* (mutant) any status other than new ends the wait
FillObservedOnAnyEnd(status) == status # "new"

\* "while filled_order.status != 'filled'"
FillObserved(status) == status = "filled"

\* the call is added to the transcript of the pass; a repeated identical
\* poll of the fill wait is kept once
Log(entry) ==
    IF calls # <<>> /\ calls[Len(calls)] = entry THEN calls ELSE Append(calls, entry)

\* the locations of run: the broker call it makes next, or the delay
RunLocations ==
    {"clock", "positions", "orders", "open_position", "submit_exit", "gate", "price",
     "submit_buy", "fill_poll", "monitor", "sleep"}

\* (mutant) the exception leaves run
Propagated(resume) == "terminated"

\* "except Exception as e": the exception is logged and control resumes at
\* `resume`, where the handler's return value or fall-through leads
Caught(resume) == resume

\* where run continues when place_sell_orders returns
AfterSellOrders(from) == IF from = "reconcile" THEN "sleep" ELSE "monitor"

\* place_sell_orders returns to its caller
ReturnFromSellOrders ==
    /\ tpc' = AfterSellOrders(sell_from)
    /\ sell_from' = "none"
    /\ exit_qty' = 0
    /\ exit_avg' = 0

\* place_sell_orders: "except Exception", return False
SellOrdersFailed ==
    /\ tpc' = Caught(AfterSellOrders(sell_from))
    /\ sell_from' = "none"
    /\ exit_qty' = 0
    /\ exit_avg' = 0

\* place_sell_orders is entered by caller `from`: "if not self.position"
EnterSellOrders(from, pos) ==
    IF pos = None
    THEN /\ tpc' = AfterSellOrders(from)
         /\ sell_from' = "none"
    ELSE /\ tpc' = "open_position"
         /\ sell_from' = from

\* run: clock = trading_client.get_clock()
GetClock ==
    /\ tpc = "clock"
    /\ \E r \in {"raise", "closed", "open"} :
        /\ calls' = Log(Called("get_clock", r, 0))
        /\ tpc' = IF r = "open" THEN "positions"
                  ELSE IF r = "raise" THEN Caught("sleep") ELSE "sleep"
    /\ UNCHANGED <<trader_position, trader_entry_price, order_states, found, sell_from,
                   exit_qty, exit_avg, buy_qty, buy_id, broker_position, broker_orders>>
    /\ UNCHANGED <<btvars, stale_alerts, cancelvars>>

\* check_and_handle_existing_position: get_all_positions and the search
GetAllPositions ==
    /\ tpc = "positions"
    /\ \/ /\ calls' = Log(Called("get_all_positions", "raise", 0))
          /\ tpc' = Caught("gate")
          /\ UNCHANGED found
       \/ IF broker_position.qty > 0
          THEN /\ calls' = Log(Called("get_all_positions", "found",
                                      broker_position.avg_entry_price))
               /\ found' = Some(broker_position)
               /\ tpc' = "orders"
          ELSE /\ calls' = Log(Called("get_all_positions", "none", 0))
               /\ tpc' = "gate"
               /\ UNCHANGED found
    /\ UNCHANGED <<trader_position, trader_entry_price, order_states, sell_from,
                   exit_qty, exit_avg, buy_qty, buy_id, broker_position, broker_orders>>
    /\ UNCHANGED <<btvars, stale_alerts, cancelvars>>

\* check_and_handle_existing_position: get_orders, adoption, exit orders
GetOrdersForPosition ==
    /\ tpc = "orders"
    /\ \/ /\ calls' = Log(Called("get_orders", "raise", 0))
          /\ tpc' = Caught("gate")
          /\ UNCHANGED <<trader_position, trader_entry_price, sell_from>>
       \/ /\ calls' = Log(Called("get_orders", ExitOrdersSeen(broker_orders), 0))
          /\ trader_position' = Some([source |-> "position", qty |-> found[1].qty])
          /\ trader_entry_price' = Some(found[1].avg_entry_price)
          /\ IF NeedsExitOrders(HasTpOrder(broker_orders), HasSlOrder(broker_orders))
             THEN EnterSellOrders("reconcile", trader_position')
             ELSE /\ tpc' = "sleep"
                  /\ UNCHANGED sell_from
    /\ found' = None
    /\ UNCHANGED <<order_states, exit_qty, exit_avg, buy_qty, buy_id,
                   broker_position, broker_orders>>
    /\ UNCHANGED <<btvars, stale_alerts, cancelvars>>

\* place_sell_orders: get_open_position, the quantity check, the prices
GetOpenPosition ==
    /\ tpc = "open_position"
    /\ \/ /\ calls' = Log(Called("get_open_position", "raise", 0))
          /\ SellOrdersFailed
       \/ /\ broker_position.qty > 0
          /\ LET available == QtyAvailable(broker_position, broker_orders) IN
             /\ calls' = Log(Called("get_open_position", "ok", available))
             /\ IF available <= 0
                THEN ReturnFromSellOrders
                ELSE /\ exit_qty' = available
                     /\ exit_avg' = broker_position.avg_entry_price
                     /\ tpc' = "submit_exit"
                     /\ UNCHANGED sell_from
    /\ UNCHANGED <<trader_position, trader_entry_price, order_states, found,
                   buy_qty, buy_id, broker_position, broker_orders>>
    /\ UNCHANGED <<btvars, stale_alerts, cancelvars>>

\* place_sell_orders: submit_order(bracket_order)
SubmitExitOrders ==
    /\ tpc = "submit_exit"
    /\ \/ /\ calls' = Log(Called("submit_order", "raise", 0))
          /\ UNCHANGED broker_orders
          /\ SellOrdersFailed
       \/ /\ Len(broker_orders) + 2 <= MaxOrders
          /\ calls' = Log(Called("submit_order", "bracket", exit_qty))
          /\ broker_orders' = broker_orders \o
                BracketLegs(broker_orders, exit_qty,
                            LiveTargetPrice(exit_avg), LiveStopPrice(exit_avg))
          /\ ReturnFromSellOrders
    /\ UNCHANGED <<trader_position, trader_entry_price, order_states, found,
                   buy_qty, buy_id, broker_position>>
    /\ UNCHANGED <<btvars, stale_alerts, cancelvars>>

\* (mutant) the buy attempted whatever the market check answered
AfterMarketCheckAlwaysBuys(outcome) == "price"

\* run: "if not self.check_market_conditions(): ... continue", else the buy
AfterMarketCheck(outcome) == IF outcome = "favourable" THEN "price" ELSE "sleep"

\* check_market_conditions
CheckMarketConditions ==
    /\ tpc = "gate"
    /\ \/ /\ calls' = Log(Called("get_stock_bars_hour", "raise", 0))
          /\ tpc' = Caught(AfterMarketCheck("raise"))
       \/ \E vols \in GateBars :
            IF vols = <<>>
            THEN /\ calls' = Log(Called("get_stock_bars_hour", "empty", 0))
                 /\ tpc' = Caught(AfterMarketCheck("empty"))
            ELSE IF MarketFavourable(vols)
                 THEN /\ calls' = Log(Called("get_stock_bars_hour", "favourable", 0))
                      /\ tpc' = AfterMarketCheck("favourable")
                 ELSE /\ calls' = Log(Called("get_stock_bars_hour", "unfavourable", 0))
                      /\ tpc' = AfterMarketCheck("unfavourable")
    /\ UNCHANGED <<trader_position, trader_entry_price, order_states, found, sell_from,
                   exit_qty, exit_avg, buy_qty, buy_id, broker_position, broker_orders>>
    /\ UNCHANGED <<btvars, stale_alerts, cancelvars>>

\* place_buy_order: get_current_price and the quantity
GetCurrentPrice ==
    /\ tpc = "price"
    /\ \/ /\ calls' = Log(Called("get_stock_bars_minute", "raise", 0))
          /\ tpc' = Caught("monitor")
          /\ UNCHANGED buy_qty
       \/ /\ calls' = Log(Called("get_stock_bars_minute", "empty", 0))
          /\ tpc' = Caught("monitor")
          /\ UNCHANGED buy_qty
       \/ \E price \in Prices :
            /\ calls' = Log(Called("get_stock_bars_minute", "price", price))
            /\ buy_qty' = BuyQty(price)
            /\ tpc' = "submit_buy"
    /\ UNCHANGED <<trader_position, trader_entry_price, order_states, found, sell_from,
                   exit_qty, exit_avg, buy_id, broker_position, broker_orders>>
    /\ UNCHANGED <<btvars, stale_alerts, cancelvars>>

\* place_buy_order: submit_order(MarketOrderRequest)
SubmitBuyOrder ==
    /\ tpc = "submit_buy"
    /\ \/ /\ calls' = Log(Called("submit_order", "raise", 0))
          /\ tpc' = Caught("monitor")
          /\ UNCHANGED <<broker_orders, buy_id>>
       \/ /\ Len(broker_orders) + 1 <= MaxOrders
          /\ buy_qty > 0
          /\ calls' = Log(Called("submit_order", "buy", buy_qty))
          /\ broker_orders' = Append(broker_orders, Order("buy", "market", buy_qty, 0, 0))
          /\ buy_id' = Len(broker_orders) + 1
          /\ tpc' = "fill_poll"
    /\ buy_qty' = 0
    /\ UNCHANGED <<trader_position, trader_entry_price, order_states, found, sell_from,
                   exit_qty, exit_avg, broker_position>>
    /\ UNCHANGED <<btvars, stale_alerts, cancelvars>>

\* place_buy_order: get_order_by_id, once and then once a second until filled
PollFill ==
    /\ tpc = "fill_poll"
    /\ \/ /\ calls' = Log(Called("get_order_by_id", "raise", buy_id))
          /\ tpc' = Caught("monitor")
          /\ buy_id' = 0
          /\ UNCHANGED <<trader_position, trader_entry_price, sell_from>>
       \/ LET filled_order == broker_orders[buy_id] IN
          /\ calls' = Log(Called("get_order_by_id", filled_order.status, buy_id))
          /\ IF FillObserved(filled_order.status)
             THEN /\ trader_entry_price' = Some(filled_order.filled_avg_price)
                  /\ trader_position' = Some([source |-> "order", qty |-> filled_order.qty])
                  /\ buy_id' = 0
                  /\ EnterSellOrders("buy", trader_position')
             ELSE UNCHANGED <<tpc, buy_id, trader_position, trader_entry_price, sell_from>>
    /\ UNCHANGED <<order_states, found, exit_qty, exit_avg, buy_qty,
                   broker_position, broker_orders>>
    /\ UNCHANGED <<btvars, stale_alerts, cancelvars>>

\* (mutant) the entries of orders no longer listed dropped
ObservedStatesPruned(states, orders) ==
    [k \in OpenOrders(orders) |-> orders[k].status]

\* the loop of monitor_orders over the listed orders:
\* "self.order_states[order.id] = status" where the status differs from the
\* stored one; other entries are left as they are
ObservedStates(states, orders) ==
    [k \in DOMAIN states \cup OpenOrders(orders) |->
        IF k \in OpenOrders(orders) THEN orders[k].status ELSE states[k]]

\* monitor_orders: the status of every open order is recorded
MonitorOrders ==
    /\ tpc = "monitor"
    /\ \/ /\ calls' = Log(Called("get_orders", "raise", 1))
          /\ tpc' = Caught("sleep")
          /\ UNCHANGED <<order_states, stale_alerts>>
       \/ /\ calls' = Log(Called("get_orders", "monitor", 1))
          /\ order_states' = ObservedStates(order_states, broker_orders)
          /\ stale_alerts' = {k \in OpenOrders(broker_orders) : IsStale(broker_orders[k].age)}
          /\ tpc' = "sleep"
    /\ UNCHANGED <<trader_position, trader_entry_price, found, sell_from,
                   exit_qty, exit_avg, buy_qty, buy_id, broker_position, broker_orders>>
    /\ UNCHANGED <<btvars, cancelvars>>

\* time.sleep(60), then the next pass
Sleep ==
    /\ tpc = "sleep"
    /\ tpc' = "clock"
    /\ calls' = <<>>
    /\ stale_alerts' = {}
    /\ UNCHANGED <<trader_position, trader_entry_price, order_states, found, sell_from,
                   exit_qty, exit_avg, buy_qty, buy_id, broker_position, broker_orders>>
    /\ UNCHANGED <<btvars, cancelvars>>

\* the broker fills an open buy order
BrokerFillsBuy ==
    /\ \E k \in OpenOrders(broker_orders), price \in Prices :
        /\ broker_orders[k].side = "buy"
        /\ broker_orders' = [broker_orders EXCEPT ![k].status = "filled",
                                                   ![k].filled_avg_price = price]
        /\ broker_position' =
            LET q == broker_position.qty + broker_orders[k].qty IN
            Holding(q, (broker_position.qty * broker_position.avg_entry_price
                        + broker_orders[k].qty * price) \div q)
    /\ UNCHANGED <<tpc, calls, trader_position, trader_entry_price, order_states, found,
                   sell_from, exit_qty, exit_avg, buy_qty, buy_id>>
    /\ UNCHANGED <<btvars, stale_alerts, cancelvars>>

\* the broker ends an open buy order unfilled (cancelled, expired, rejected)
BrokerEndsBuy ==
    /\ \E k \in OpenOrders(broker_orders) :
        /\ broker_orders[k].side = "buy"
        /\ broker_orders' = [broker_orders EXCEPT ![k].status = "canceled"]
    /\ UNCHANGED <<tpc, calls, trader_position, trader_entry_price, order_states, found,
                   sell_from, exit_qty, exit_avg, buy_qty, buy_id, broker_position>>
    /\ UNCHANGED <<btvars, stale_alerts, cancelvars>>

\* the broker fills an open sell order; the other leg of its pair is cancelled
BrokerFillsSell ==
    /\ \E k \in OpenOrders(broker_orders) :
        /\ broker_orders[k].side = "sell"
        /\ broker_orders[k].qty <= broker_position.qty
        /\ broker_orders' =
            [n \in 1..Len(broker_orders) |->
                IF n = k THEN [broker_orders[n] EXCEPT !.status = "filled",
                                                       !.filled_avg_price = broker_orders[n].price]
                ELSE IF n = broker_orders[k].link /\ n \in OpenOrders(broker_orders)
                     THEN [broker_orders[n] EXCEPT !.status = "canceled"]
                     ELSE broker_orders[n]]
        /\ broker_position' =
            IF broker_position.qty = broker_orders[k].qty
            THEN NoHolding
            ELSE Holding(broker_position.qty - broker_orders[k].qty,
                         broker_position.avg_entry_price)
    /\ UNCHANGED <<tpc, calls, trader_position, trader_entry_price, order_states, found,
                   sell_from, exit_qty, exit_avg, buy_qty, buy_id>>
    /\ UNCHANGED <<btvars, stale_alerts, cancelvars>>

\* ------------------------------------------------------------------------
\* Live controller: cancel_existing_orders
\* ------------------------------------------------------------------------

\* "while retries < 3"
MAX_RETRIES == 3

\* what is left untouched of the controller and the account while
\* cancel_existing_orders runs
CancelFrame ==
    UNCHANGED <<tpc, calls, trader_position, trader_entry_price, order_states,
                stale_alerts, found, sell_from, exit_qty, exit_avg, buy_qty, buy_id,
                broker_position, broker_orders, btvars>>

\* "except Exception as e: ... return False"
CancelFailed ==
    /\ cancel_pc' = "failed"
    /\ cancel_result' = Some(FALSE)
    /\ UNCHANGED <<retries, remaining_orders, cancel_requests>>

\* cancel_existing_orders is entered
CancelExistingOrders ==
    /\ cancel_pc = "idle"
    /\ cancel_pc' = "first_pass"
    /\ UNCHANGED <<retries, remaining_orders, cancel_result, cancel_requests>>
    /\ CancelFrame

\* first pass: get_orders(status='open'), cancel_order_by_id for each
CancelFirstPass ==
    /\ cancel_pc = "first_pass"
    /\ \/ CancelFailed
       \/ /\ cancel_requests' = cancel_requests \cup OpenOrders(broker_orders)
          /\ retries' = 0
          /\ cancel_pc' = "verify"
          /\ UNCHANGED <<remaining_orders, cancel_result>>
    /\ CancelFrame

\* one iteration of "while retries < 3": list, break or cancel again
CancelVerify ==
    /\ cancel_pc = "verify"
    /\ retries < MAX_RETRIES
    /\ \/ CancelFailed
       \/ /\ remaining_orders' = OpenOrders(broker_orders)
          /\ IF remaining_orders' = {}
             THEN /\ cancel_pc' = "final"
                  /\ UNCHANGED <<retries, cancel_requests>>
             ELSE /\ cancel_requests' = cancel_requests \cup remaining_orders'
                  /\ retries' = retries + 1
                  /\ UNCHANGED cancel_pc
          /\ UNCHANGED cancel_result
    /\ CancelFrame

\* the loop condition fails: on to the final check
CancelLoopExit ==
    /\ cancel_pc = "verify"
    /\ retries >= MAX_RETRIES
    /\ cancel_pc' = "final"
    /\ UNCHANGED <<retries, remaining_orders, cancel_result, cancel_requests>>
    /\ CancelFrame

\* final check: "if remaining_orders: ... return False", else return True
CancelReturn ==
    /\ cancel_pc = "final"
    /\ cancel_result' = Some(remaining_orders = {})
    /\ cancel_pc' = "returned"
    /\ UNCHANGED <<retries, remaining_orders, cancel_requests>>
    /\ CancelFrame

\* the broker carries out a cancellation it was asked for
BrokerCancels ==
    /\ \E k \in cancel_requests \cap OpenOrders(broker_orders) :
        broker_orders' = [broker_orders EXCEPT ![k].status = "canceled"]
    /\ UNCHANGED <<tpc, calls, trader_position, trader_entry_price, order_states,
                   stale_alerts, found, sell_from, exit_qty, exit_avg, buy_qty, buy_id,
                   broker_position, cancelvars, btvars>>

\* cancel_existing_orders has not been called
CancelNotCalled ==
    /\ cancel_pc = "idle"
    /\ retries = 0
    /\ remaining_orders = {}
    /\ cancel_result = None
    /\ cancel_requests = {}

\* ------------------------------------------------------------------------
\* Specifications
\* ------------------------------------------------------------------------

\* OnePercentBacktest.__init__
BacktestConstructed ==
    /\ pc = "new"
    /\ df = <<>>
    /\ i = 0
    /\ capital = ToMills(initial_capital)
    /\ position = None
    /\ entry_price = None
    /\ trades = <<>>
    /\ first_run = None
    /\ stats = None

\* OnePercentTrader.__init__, run not yet entered, against account `acct`
TraderConstructed(acct) ==
    /\ tpc = "clock"
    /\ calls = <<>>
    /\ trader_position = None
    /\ trader_entry_price = None
    /\ order_states = <<>>
    /\ stale_alerts = {}
    /\ found = None
    /\ sell_from = "none"
    /\ exit_qty = 0
    /\ exit_avg = 0
    /\ buy_qty = 0
    /\ buy_id = 0
    /\ broker_position = acct.holding
    /\ broker_orders = acct.orders
    /\ CancelNotCalled

\* The backtest: the engine is constructed, the controller is not running.
Init ==
    /\ BacktestConstructed
    /\ TraderConstructed([holding |-> NoHolding, orders |-> <<>>])

Next == RunBacktest \/ Iterate \/ Finish

Spec == Init /\ [][Next]_vars

\* a trade of `shares` shares entered at 100.00 and closed on a bar of the
\* given shape, as run_backtest records it
LedgerTrade(shares, shape) ==
    LET e == ToMills(Quiet.close) IN
    ClosedTrade(DataFrame(<<shape>>)[1],
                [shares |-> shares, entry_price |-> e, entry_time |-> 0,
                 target_price |-> TargetPrice(e), stop_price |-> StopPrice(e)])

\* wins, losses and trades of zero shares (a price above the capital)
LedgerTrades == {LedgerTrade(n, shape) : n \in {0, 100}, shape \in {Up, SpikeDown}}

Ledgers == UNION {[1..n -> LedgerTrades] : n \in 0..MaxTrades}

\* an engine whose run_backtest has returned with ledger ts
BacktestReturned(ts) ==
    /\ pc = "done"
    /\ df = <<>>
    /\ i = 0
    /\ capital = ToMills(initial_capital) + SumPl(ts, Len(ts))
    /\ position = None
    /\ entry_price = IF ts = <<>> THEN None ELSE Some(ts[Len(ts)].entry_price)
    /\ trades = ts
    /\ first_run = None
    /\ stats = None

\* The statistics: get_stats after a run of the backtest, or on an engine
\* holding any of the ledgers.
StatsInit ==
    /\ \/ BacktestConstructed
       \/ \E ts \in Ledgers : BacktestReturned(ts)
    /\ TraderConstructed([holding |-> NoHolding, orders |-> <<>>])

StatsNext == RunBacktest \/ Iterate \/ Finish \/ GetStats

StatsSpec == StatsInit /\ [][StatsNext]_vars

\* the bars with every price multiplied by f: a share price near 100, which
\* divides the capital, and near 2100, which leaves part of it unspent
PriceScales == {1, 21}

ScaleBars(d, f) ==
    [k \in 1..Len(d) |->
        [d[k] EXCEPT !.close = d[k].close * f, !.high = d[k].high * f,
                     !.low = d[k].low * f]]

ScaledBarSequences == {ScaleBars(d, f) : d \in BarSequences, f \in PriceScales}

\* run_backtest has fetched `bars` and reset the metrics
BacktestStarted(bars) ==
    /\ pc = "loop"
    /\ df = bars
    /\ i = 0
    /\ capital = ToMills(initial_capital)
    /\ position = None
    /\ entry_price = None
    /\ trades = <<>>
    /\ first_run = None
    /\ stats = None

\* Position sizing: the loop of run_backtest over bars at any of the price
\* levels.
SizingInit ==
    /\ \E bars \in ScaledBarSequences : BacktestStarted(bars)
    /\ TraderConstructed([holding |-> NoHolding, orders |-> <<>>])

SizingNext == Iterate \/ Finish

SizingSpec == SizingInit /\ [][SizingNext]_vars

\* The backtest run a second time on the same instance.
RerunNext == RunBacktest \/ Iterate \/ Finish \/ RunAgain

RerunSpec == Init /\ [][RerunNext]_vars

\* The live controller: run is entered against any of the starting accounts.
TraderInit ==
    /\ BacktestConstructed
    /\ \E acct \in BrokerStates : TraderConstructed(acct)

TraderNext ==
    \/ GetClock
    \/ GetAllPositions
    \/ GetOrdersForPosition
    \/ GetOpenPosition
    \/ SubmitExitOrders
    \/ CheckMarketConditions
    \/ GetCurrentPrice
    \/ SubmitBuyOrder
    \/ PollFill
    \/ MonitorOrders
    \/ Sleep
    \/ BrokerFillsBuy
    \/ BrokerEndsBuy
    \/ BrokerFillsSell

TraderSpec == TraderInit /\ [][TraderNext]_vars

\* Cancellation: cancel_existing_orders called on a controller against any
\* of the starting accounts, while the broker works on the orders.
CancelNext ==
    \/ CancelExistingOrders
    \/ CancelFirstPass
    \/ CancelVerify
    \/ CancelLoopExit
    \/ CancelReturn
    \/ BrokerCancels
    \/ BrokerFillsSell

CancelSpec == TraderInit /\ [][CancelNext]_vars

\* order ages in seconds: fresh, around the hour, around the day, and more
\* than a day and an hour
Ages == {0, 3600, 3601, 86399, 86400, 86401, 90000, 90001}

\* an order created `a` seconds ago
Aged(order, a) == [order EXCEPT !.age = a]

\* the open orders of the symbol, of any age, that get_orders returns
AgedOrders ==
    UNION {[1..n -> {Aged(Order("sell", "limit", 1, LiveTargetPrice(price), 0), a) :
                        a \in Ages, price \in Prices}] : n \in 0..MaxOrders}

\* a pass that comes to monitor_orders without having traded: the position
\* query raised, the market check passed, no price was available
PassToMonitor ==
    <<Called("get_clock", "open", 0), Called("get_all_positions", "raise", 0),
      Called("get_stock_bars_hour", "favourable", 0),
      Called("get_stock_bars_minute", "empty", 0)>>

\* Order monitoring: run stands before monitor_orders, the account holds
\* shares and open orders of any age.
StaleInit ==
    /\ BacktestConstructed
    /\ \E orders \in AgedOrders, price \in Prices :
        /\ tpc = "monitor"
        /\ calls = PassToMonitor
        /\ trader_position = None
        /\ trader_entry_price = None
        /\ order_states = <<>>
        /\ stale_alerts = {}
        /\ found = None
        /\ sell_from = "none"
        /\ exit_qty = 0
        /\ exit_avg = 0
        /\ buy_qty = 0
        /\ buy_id = 0
        /\ broker_position = Holding(BuyQty(price), price)
        /\ broker_orders = orders
        /\ CancelNotCalled

StaleNext == MonitorOrders \/ Sleep

StaleSpec == StaleInit /\ [][StaleNext]_vars

\* ------------------------------------------------------------------------
\* Backtest: properties
\* ------------------------------------------------------------------------

\* a step of the loop body over row i
InLoopBody == pc = "loop" /\ i < Len(df)

\* the step appended a trade
TradeAppended == Len(trades') = Len(trades) + 1

LastTrade(ts) == ts[Len(ts)]

\* row n (0-based) opens a position for a flat engine, written from the rule:
\* n >= 20 and volume[n] > 1.2 * mean(volume[n-20 .. n-1])
SpikeAt(d, n) == n >= 20 /\ 100 * d[n + 1].volume > 6 * SumVolume(d, n - 20, n)

\* C1: every trade appended to the ledger has exit_type target or stop, is
\* priced exactly at the open position's pre-computed target_price (target)
\* or stop_price (stop), never at the bar's high or low, and has
\* pl = (exit_price - entry_price) * shares.
C1_ExitAtPrecomputedPrice ==
    [][TradeAppended =>
        LET t == LastTrade(trades')
            p == position[1]
        IN  /\ position # None
            /\ t.exit_type \in {"target", "stop"}
            /\ t.exit_type = "target" => t.exit_price = p.target_price
            /\ t.exit_type = "stop" => t.exit_price = p.stop_price
            /\ t.entry_price = p.entry_price
            /\ t.shares = p.shares
            /\ t.pl = (t.exit_price - t.entry_price) * t.shares]_vars

\* The ledger holds a target exit on a bar whose high overshot the target and
\* a stop exit on a bar whose low undershot the stop.
C1_Witness ==
    /\ \E k \in 1..Len(trades) :
        /\ trades[k].exit_type = "target"
        /\ ToMills(df[trades[k].exit_time + 1].high) > trades[k].exit_price
    /\ \E k \in 1..Len(trades) :
        /\ trades[k].exit_type = "stop"
        /\ ToMills(df[trades[k].exit_time + 1].low) < trades[k].exit_price

\* C2: while holding, a bar with high >= target_price and low <= stop_price
\* closes the position as a target exit at target_price; a stop exit is
\* recorded only when low <= stop_price and high < target_price.
C2_TargetWinsTie ==
    [][(InLoopBody /\ position # None) =>
        LET bar == df[i + 1]
            p == position[1]
            hitT == ToMills(bar.high) >= p.target_price
            hitS == ToMills(bar.low) <= p.stop_price
        IN  /\ (hitT /\ hitS) =>
                /\ TradeAppended
                /\ LastTrade(trades').exit_type = "target"
                /\ LastTrade(trades').exit_price = p.target_price
            /\ (TradeAppended /\ LastTrade(trades').exit_type = "stop") =>
                (hitS /\ ~hitT)]_vars

\* A trade closed on a bar that reached both its target and its stop.
C2_Witness ==
    \E k \in 1..Len(trades) :
        LET bar == df[trades[k].exit_time + 1] IN
        /\ ToMills(bar.high) * 100 >= trades[k].entry_price * 101
        /\ ToMills(bar.low) * 1000 <= trades[k].entry_price * 995

\* C3: a flat engine opens a position at row i iff i >= 20 and volume[i]
\* exceeds 1.2 x the mean volume of rows i-20 .. i-1; the position has
\* entry_price = close[i], shares = floor(capital / close[i]),
\* target_price = entry_price * 1.01 and stop_price = entry_price * 0.995.
\* A bar sequence with no such row opens nothing and leaves the ledger empty.
C3_EntryRule ==
    /\ [][(InLoopBody /\ position = None) =>
            /\ position' # None <=> SpikeAt(df, i)
            /\ position' # None =>
                LET q == position'[1]
                    c == ToMills(df[i + 1].close)
                IN  /\ q.entry_price = c
                    /\ q.entry_time = i
                    /\ q.shares * c <= capital
                    /\ capital < (q.shares + 1) * c
                    /\ q.target_price * 100 = c * 101
                    /\ q.stop_price * 1000 = c * 995
                    /\ capital' = capital]_vars
    /\ []((\A n \in 0..(Len(df) - 1) : ~SpikeAt(df, n)) =>
            (position = None /\ trades = <<>>))

\* A position opened at row 20 on a spike with capital 10000 and close 100:
\* 100 shares, target 101.00, stop 99.50.
C3_Witness ==
    /\ position # None
    /\ position[1].entry_time = 20
    /\ position[1].shares = 100
    /\ position[1].target_price = 101000
    /\ position[1].stop_price = 99500

\* C4: no pyramiding: a bar processed while a position is open opens no
\* second position and leaves the open position's fields unchanged (the
\* position is kept or closed, never replaced), also on a volume spike; in
\* the ledger trade k+1 is entered strictly after trade k was exited.
C4_NoPyramiding ==
    /\ [][(InLoopBody /\ position # None) =>
            /\ position' \in {position, None}
            /\ position' = None => TradeAppended]_vars
    /\ [](\A k \in 1..(Len(trades) - 1) :
            trades[k + 1].entry_time > trades[k].exit_time)

\* A position opened after an earlier trade is still open, unchanged, after a
\* later row that was itself a volume spike.
C4_Witness ==
    /\ pc = "loop"
    /\ Len(trades) >= 1
    /\ position # None
    /\ position[1].entry_time > trades[Len(trades)].exit_time
    /\ position[1].entry_time < i - 1
    /\ SpikeAt(df, i - 1)

\* ------------------------------------------------------------------------
\* Live controller: properties
\* ------------------------------------------------------------------------

\* the pass made call c with outcome r
HasCall(c, r) == \E k \in 1..Len(calls) : calls[k].call = c /\ calls[k].result = r

\* how often the pass made call c with outcome r
CountCalls(c, r) ==
    Cardinality({k \in 1..Len(calls) : calls[k].call = c /\ calls[k].result = r})

\* no broker call of the pass failed
NoCallFailed == \A k \in 1..Len(calls) : calls[k].result # "raise"

\* the step submitted a buy order that the broker accepted
BuySubmitted ==
    /\ Len(broker_orders') = Len(broker_orders) + 1
    /\ broker_orders'[Len(broker_orders')].side = "buy"

\* the step submitted exit orders that the broker accepted
ExitSubmitted ==
    /\ tpc = "submit_exit"
    /\ Len(broker_orders') = Len(broker_orders) + 2

\* C5: a buy order is submitted in a pass only if, in that pass, the market
\* was open, the gate passed and the broker holds no position in the symbol;
\* whatever the broker answers (failures included), no buy order is submitted
\* while the broker holds a position.
C5_BuyOnlyWhenFlat ==
    [][BuySubmitted =>
        /\ HasCall("get_clock", "open")
        /\ HasCall("get_stock_bars_hour", "favourable")
        /\ broker_position.qty = 0]_vars

\* C6: a pass (market open) in which the broker reports a position and
\* neither a limit sell nor a stop sell order ends with the position adopted
\* (entry_price = the reported average entry price), with no buy submitted
\* and at most one exit submission, and with exactly one (the bracket of one
\* limit and one stop leg for the available shares) when no broker call
\* failed.
C6_Reconciliation ==
    (/\ tpc = "sleep"
     /\ HasCall("get_all_positions", "found")
     /\ HasCall("get_orders", "neither")) =>
        /\ HasCall("get_clock", "open")
        /\ trader_position # None
        /\ trader_position[1].source = "position"
        /\ \E k \in 1..Len(calls) :
            /\ calls[k].call = "get_all_positions"
            /\ trader_entry_price = Some(calls[k].arg)
        /\ CountCalls("submit_order", "buy") = 0
        /\ CountCalls("submit_order", "bracket") <= 1
        /\ NoCallFailed =>
            /\ CountCalls("submit_order", "bracket") = 1
            /\ \E k \in 2..Len(calls) :
                /\ calls[k] = Called("submit_order", "bracket", calls[k - 1].arg)
                /\ calls[k - 1].call = "get_open_position"
                /\ calls[k].arg > 0

\* A reconciliation pass over a naked position that placed the bracket.
C6_Witness ==
    /\ tpc = "sleep"
    /\ HasCall("get_all_positions", "found")
    /\ HasCall("get_orders", "neither")
    /\ HasCall("submit_order", "bracket")
    /\ \E k \in OpenOrders(broker_orders) : broker_orders[k].type = "limit"
    /\ \E k \in OpenOrders(broker_orders) : broker_orders[k].type = "stop"

\* C7: when the broker reports a position and both an open limit sell and an
\* open stop sell exist, check_and_handle_existing_position makes no further
\* broker call (no submission, no cancellation): it adopts the position and
\* returns True, and the pass ends there.
C7_NoDuplicateExitOrders ==
    HasCall("get_orders", "both") =>
        /\ tpc = "sleep"
        /\ Len(calls) = 3
        /\ calls[1] = Called("get_clock", "open", 0)
        /\ calls[2].call = "get_all_positions" /\ calls[2].result = "found"
        /\ calls[3] = Called("get_orders", "both", 0)
        /\ trader_position # None
        /\ trader_position[1].source = "position"
        /\ trader_entry_price = Some(calls[2].arg)

\* A pass that found the position with both exit orders open, on an account
\* whose only orders are those two.
C7_Witness ==
    /\ HasCall("get_orders", "both")
    /\ tpc = "sleep"
    /\ Len(broker_orders) = 2
    /\ OpenOrders(broker_orders) = {1, 2}

\* C8: place_sell_orders cancels the symbol's open orders before it submits
\* the exit orders: at the submission, every order of the symbol that is
\* still open has been asked to cancel earlier in the pass.
C8_CancelBeforeExit ==
    [][ExitSubmitted =>
        \A k \in OpenOrders(broker_orders) :
            \E j \in 1..Len(calls) :
                calls[j].call = "cancel_order_by_id" /\ calls[j].arg = k]_vars

\* C9: a pass with the market open and no failing broker call, in which the
\* broker reports a position that lacks the limit sell or the stop sell,
\* submits exit orders for it.
C9_UnprotectedGetsExitOrders ==
    (/\ tpc = "sleep"
     /\ NoCallFailed
     /\ HasCall("get_clock", "open")
     /\ HasCall("get_all_positions", "found")
     /\ \/ HasCall("get_orders", "neither")
        \/ HasCall("get_orders", "tp_only")
        \/ HasCall("get_orders", "sl_only")) =>
        HasCall("submit_order", "bracket")

\* C10: place_buy_order leaves its fill wait only by a failing status query
\* (it returns False) or on seeing the order filled (entry_price = the filled
\* average price, position set, exit placement entered); otherwise it stays
\* in the wait, so the pass never ends.  Exit orders that follow a buy in a
\* pass come after a status query that saw the buy filled.
C10_FillWait ==
    /\ [][(tpc = "fill_poll" /\ tpc' # "fill_poll") =>
            LET o == broker_orders[buy_id] IN
            \/ /\ calls'[Len(calls')] = Called("get_order_by_id", "raise", buy_id)
               /\ tpc' = "monitor"
               /\ UNCHANGED <<trader_position, trader_entry_price>>
            \/ /\ o.status = "filled"
               /\ calls'[Len(calls')] = Called("get_order_by_id", "filled", buy_id)
               /\ trader_entry_price' = Some(o.filled_avg_price)
               /\ trader_position' = Some([source |-> "order", qty |-> o.qty])
               /\ tpc' = "open_position"]_vars
    /\ [](\A j, k \in 1..Len(calls) :
            (/\ j < k
             /\ calls[j].call = "submit_order" /\ calls[j].result = "buy"
             /\ calls[k].call = "submit_order" /\ calls[k].result = "bracket") =>
                \E m \in (j + 1)..(k - 1) :
                    /\ calls[m].call = "get_order_by_id"
                    /\ calls[m].result = "filled")

\* A pass that submitted a buy, polled it while still unfilled, saw it
\* filled and then placed the exit orders.
C10_Witness ==
    /\ HasCall("submit_order", "buy")
    /\ HasCall("get_order_by_id", "new")
    /\ HasCall("get_order_by_id", "filled")
    /\ HasCall("submit_order", "bracket")
    /\ trader_position # None
    /\ trader_position[1].source = "order"

\* the step made a broker call that raised
RaisedInStep ==
    calls' # calls /\ calls' # <<>> /\ calls'[Len(calls')].result = "raise"

\* C11: run never returns and never lets an exception out.  Every step
\* leaves run at one of its own locations; a broker call that raises (clock
\* query, reconciliation, market check, buy, exit placement, monitoring) is
\* followed by the rest of the pass or by the delay; and the delay is left
\* only for the clock query of a new pass.
C11_RunNeverTerminates ==
    [][/\ tpc' \in RunLocations
       /\ RaisedInStep => tpc' \in {"gate", "monitor", "sleep"}
       /\ (tpc = "sleep" /\ tpc' # tpc) => (tpc' = "clock" /\ calls' = <<>>)]_vars

\* A pass in which reconciliation, the price query and monitoring all
\* raised, and which reached the delay.
C11_Witness ==
    /\ tpc = "sleep"
    /\ HasCall("get_all_positions", "raise")
    /\ HasCall("get_stock_bars_minute", "raise")
    /\ \E k \in 1..Len(calls) : calls[k] = Called("get_orders", "raise", 1)

\* monitor_orders ran in the pass: its get_orders call is in the transcript
MonitorRan == \E k \in 1..Len(calls) : calls[k].call = "get_orders" /\ calls[k].arg = 1

\* C12: every pass in which the market is open runs monitor_orders before
\* the delay, passes that found a position and passes with unfavourable
\* market conditions included.
C12_MonitorEveryOpenPass ==
    (tpc = "sleep" /\ HasCall("get_clock", "open")) => MonitorRan

\* C13: a monitor_orders pass that lists the orders warns about exactly the
\* open orders older than one hour (3600 s), whatever their age, a day or
\* more included.
C13_StaleExactlyAfterOneHour ==
    [][(tpc = "monitor" /\ tpc' = "sleep" /\ ~RaisedInStep) =>
            stale_alerts' = {k \in OpenOrders(broker_orders) :
                                broker_orders[k].age > 3600}]_vars

\* C14: throughout run_backtest capital is the initial capital plus the
\* sum of pl over the ledger, and a step of the loop changes capital only
\* when it closes the open position and appends its trade.
C14_CapitalAccounting ==
    /\ [](pc \in {"loop", "done"} =>
            capital = ToMills(initial_capital) + SumPl(trades, Len(trades)))
    /\ [][(pc = "loop" /\ capital' # capital) =>
            /\ position # None
            /\ position' = None
            /\ TradeAppended
            /\ capital' = capital + LastTrade(trades').pl]_vars

\* A winning and a losing trade were closed and capital moved.
C14_Witness ==
    /\ pc = "done"
    /\ Len(trades) = 2
    /\ trades[1].pl > 0
    /\ trades[2].pl < 0
    /\ capital # ToMills(initial_capital)

\* C15: a second run_backtest on the same instance over the same bars ends
\* with the ledger and the capital of the first run, whatever the first run
\* left behind (changed capital, an open position, a stored entry price).
C15_RerunIdentical ==
    (pc = "done" /\ first_run # None) =>
        /\ trades = first_run[1].trades
        /\ capital = first_run[1].capital

\* A second run has finished; the first had closed a trade, changed capital
\* and ended with a position open.
C15_Witness ==
    /\ pc = "done"
    /\ first_run # None
    /\ Len(first_run[1].trades) >= 1
    /\ first_run[1].capital # ToMills(initial_capital)
    /\ position # None

\* a bar fetch of the pass raised or returned no bars
FetchFailed ==
    \E k \in 1..Len(calls) :
        /\ calls[k].call \in {"get_stock_bars_hour", "get_stock_bars_minute"}
        /\ calls[k].result \in {"raise", "empty"}

\* the pass made a call after which self.position and self.entry_price are
\* written: reconciliation's order listing, or a fill seen by the fill wait
PositionWritten ==
    \E k \in 1..Len(calls) :
        \/ calls[k].call = "get_orders" /\ calls[k].arg = 0 /\ calls[k].result # "raise"
        \/ calls[k].call = "get_order_by_id" /\ calls[k].result = "filled"

\* C16: in a pass in which the bar fetch of check_market_conditions or of
\* get_current_price raised or returned no bars, no buy is submitted, the
\* controller's position and entry_price keep the values they had when the
\* pass began, and the pass goes on to the delay.
C16_FetchFailureNoSignal ==
    /\ [](FetchFailed =>
            /\ ~HasCall("submit_order", "buy")
            /\ ~PositionWritten
            /\ tpc \in {"monitor", "sleep"})
    /\ [][(trader_position' # trader_position
            \/ trader_entry_price' # trader_entry_price) => PositionWritten']_vars

\* The controller had adopted a position; in a later pass the position
\* query and the market check's bar fetch raised, and the pass reached the
\* delay.
C16_Witness ==
    /\ tpc = "sleep"
    /\ HasCall("get_stock_bars_hour", "raise")
    /\ trader_position # None
    /\ trader_entry_price # None

\* C17: get_stats raises no ZeroDivisionError on any ledger.  An empty
\* ledger gives the no-trades result; a ledger without a profitable trade
\* gives average and maximum profit 0; a ledger without a losing trade gives
\* average and maximum loss 0.
C17_StatsNoZeroDivision ==
    stats # None =>
        LET s == stats[1] IN
        /\ s.result # "ZeroDivisionError"
        /\ (trades = <<>>) <=> (s.result = "No trades executed")
        /\ trades # <<>> =>
            /\ s.result = "stats"
            /\ (\A k \in 1..Len(trades) : ~(trades[k].pl > 0)) =>
                    (s.avg_profit.num = 0 /\ s.max_profit = 0)
            /\ (\A k \in 1..Len(trades) : ~(trades[k].pl <= 0)) =>
                    (s.avg_loss.num = 0 /\ s.max_loss = 0)

\* get_stats has answered for a ledger of two trades none of which made a
\* profit.
C17_Witness ==
    /\ stats # None
    /\ Len(trades) = 2
    /\ \A k \in 1..Len(trades) : trades[k].pl <= 0
    /\ trades[1].pl < 0
    /\ stats[1].result = "stats"
    /\ stats[1].avg_loss.num < 0

\* C18: get_stats counts every trade once, as profitable (pl > 0) or as
\* losing (pl <= 0): the two counts add up to the number of trades, a trade
\* with pl = 0 is a loss and enters the average and the maximum loss, and
\* the win rate is profitable_trades / total_trades.
C18_StatsPartition ==
    (stats # None /\ trades # <<>>) =>
        LET s == stats[1]
            wins == {k \in 1..Len(trades) : trades[k].pl > 0}
            losses == {k \in 1..Len(trades) : trades[k].pl <= 0}
        IN  /\ s.total_trades = Len(trades)
            /\ s.profitable_trades = Cardinality(wins)
            /\ s.losing_trades = Cardinality(losses)
            /\ s.profitable_trades + s.losing_trades = s.total_trades
            /\ s.win_rate.num * s.total_trades = s.profitable_trades * s.win_rate.den
            /\ losses # {} =>
                /\ s.avg_loss.num = SumPlOver(trades, losses, Len(trades))
                /\ s.avg_loss.den = Cardinality(losses)
                /\ \E k \in losses : s.max_loss = trades[k].pl
                /\ \A k \in losses : s.max_loss <= trades[k].pl
            /\ wins # {} =>
                /\ s.avg_profit.num = SumPlOver(trades, wins, Len(trades))
                /\ s.avg_profit.den = Cardinality(wins)

\* get_stats has answered for a ledger holding a win, a loss and a trade
\* of zero shares, whose pl is 0.
C18_Witness ==
    /\ stats # None
    /\ Len(trades) = 3
    /\ \E a, b, c \in 1..3 :
        trades[a].pl > 0 /\ trades[b].pl < 0 /\ trades[c].pl = 0 /\ trades[c].shares = 0
    /\ stats[1].losing_trades = 2
    /\ stats[1].profitable_trades = 1

\* the step submitted one or more orders
SubmittedInStep == Len(broker_orders') > Len(broker_orders)

\* the step is a monitor_orders call that listed the orders
MonitoredInStep == tpc = "monitor" /\ tpc' = "sleep" /\ ~RaisedInStep

\* C19 (as claimed): an entry of order_states is created when the controller
\* submits the order; after monitor_orders every listed order has its
\* current status in order_states; and an order that is no longer listed
\* has no entry.
C19_OrderStateLifecycle ==
    [][/\ SubmittedInStep =>
            \A k \in (Len(broker_orders) + 1)..Len(broker_orders') :
                k \in DOMAIN order_states'
       /\ MonitoredInStep =>
            /\ \A k \in OpenOrders(broker_orders) :
                    k \in DOMAIN order_states' /\ order_states'[k] = broker_orders[k].status
            /\ DOMAIN order_states' \subseteq OpenOrders(broker_orders)]_vars

\* C19 (amended): order_states is written by monitor_orders alone.  A
\* submission creates no entry; a monitor_orders call that lists the orders
\* leaves every listed order with its current status in order_states,
\* creating the entry where there was none, and keeps every other entry as
\* it was: entries are never removed.
C19_OrderStateObserved ==
    [][/\ SubmittedInStep => order_states' = order_states
       /\ order_states' # order_states => MonitoredInStep
       /\ DOMAIN order_states \subseteq DOMAIN order_states'
       /\ MonitoredInStep =>
            /\ DOMAIN order_states' = DOMAIN order_states \cup OpenOrders(broker_orders)
            /\ \A k \in OpenOrders(broker_orders) :
                    order_states'[k] = broker_orders[k].status
            /\ \A k \in DOMAIN order_states \ OpenOrders(broker_orders) :
                    order_states'[k] = order_states[k]]_vars

\* monitor_orders has listed the orders in this pass; order_states holds an
\* open order and an order that has since been filled or cancelled.
C19_Witness ==
    /\ tpc = "sleep"
    /\ HasCall("get_orders", "monitor")
    /\ \E k \in DOMAIN order_states : broker_orders[k].status # "new"
    /\ \E k \in DOMAIN order_states : broker_orders[k].status = "new"

\* C20: cancel_existing_orders makes at most 3 verification retries, and
\* when its final check returns, the result is True exactly when no order
\* of the symbol is open: False is returned only with an order still open.
C20_CancelResultReflectsBroker ==
    /\ [](retries <= 3)
    /\ [][(cancel_pc = "final" /\ cancel_pc' = "returned") =>
            (cancel_result' = Some(TRUE) <=> OpenOrders(broker_orders') = {})]_vars

\* the bar of index n meets the exit condition of a position entered at
\* price e (its high reaches the target or its low reaches the stop)
BarMeetsExit(d, n, e) ==
    \/ ToMills(d[n + 1].high) >= (e * 101) \div 100
    \/ ToMills(d[n + 1].low) <= (e * 995) \div 1000

\* C21: a position is never closed on the bar that opened it: every trade
\* of the ledger is exited on a later bar than it was entered, also when
\* the entry bar itself reaches the target or the stop.  A bar makes at most
\* one transition: the bar that opens a position (stamped with that bar)
\* appends no trade, and the bar that appends a trade (stamped with that
\* bar) leaves the engine flat.  A position still open when the bars end is
\* not booked: the ledger is returned as the loop left it.
C21_NoExitOnEntryBar ==
    /\ [](\A k \in 1..Len(trades) : trades[k].exit_time > trades[k].entry_time)
    /\ [][InLoopBody =>
            /\ (position = None /\ position' # None) =>
                    (trades' = trades /\ position'[1].entry_time = i)
            /\ TradeAppended =>
                    (position' = None /\ LastTrade(trades').exit_time = i)
            /\ Len(trades') \in {Len(trades), Len(trades) + 1}]_vars
    /\ [][(pc = "loop" /\ pc' = "done") => trades' = trades]_vars
    /\ [](pc = "done" /\ position # None =>
            \A k \in 1..Len(trades) : trades[k].entry_time < position[1].entry_time)

\* The run has returned: the first trade was entered on a bar that itself
\* reached its target or stop and was closed on a later bar, and a position
\* entered afterwards is still open.
C21_Witness ==
    /\ pc = "done"
    /\ Len(trades) >= 1
    /\ BarMeetsExit(df, trades[1].entry_time, trades[1].entry_price)
    /\ trades[1].exit_time > trades[1].entry_time
    /\ position # None

\* the capital before trade k of the ledger was entered
CapitalBefore(ts, k) == ToMills(initial_capital) + SumPl(ts, k - 1)

\* C22: with positive initial capital and positive prices, capital is
\* strictly positive in every state of run_backtest; the cost of a
\* position, shares * entry_price, is at most the capital at entry, for the
\* open position and for every trade of the ledger; and a stop exit loses at
\* most 0.5% of the capital at entry.
C22_CapitalPositiveCostBounded ==
    /\ capital > 0
    /\ position # None =>
            /\ position[1].shares >= 0
            /\ position[1].shares * position[1].entry_price <= capital
    /\ \A k \in 1..Len(trades) :
            /\ trades[k].shares * trades[k].entry_price <= CapitalBefore(trades, k)
            /\ trades[k].exit_type = "stop" =>
                    (-trades[k].pl) * 1000 <= CapitalBefore(trades, k) * 5

\* A position of four shares, bought with part of the capital, was stopped
\* out at a loss; the next position is open.
C22_Witness ==
    /\ Len(trades) >= 1
    /\ trades[1].shares = 4
    /\ trades[1].shares * trades[1].entry_price < CapitalBefore(trades, 1)
    /\ trades[1].exit_type = "stop"
    /\ trades[1].pl < 0
    /\ capital < ToMills(initial_capital)
    /\ position # None

====
